---- MODULE Spec2Model ----
(***************************************************************************)
(* The game engine of the MLB replay simulator (project/engine.py) as a    *)
(* state machine: Engine.play, play_inning, play_half_inning and           *)
(* advance_runners.  One step is one evaluation of a loop head or one      *)
(* resolved plate appearance.  The outcome of simulate_at_bat is a random  *)
(* draw, so a plate appearance takes any of the six results.               *)
(*                                                                         *)
(* Team.get_starting_lineup, Team.get_starting_pitcher (project/classes.py)*)
(* and Engine.simulate_at_bat are functions of their arguments and of the  *)
(* values random yields, and get_team_object (project/project.py) is a     *)
(* function of the league and the code typed in; each is called once, on   *)
(* its own, from every argument of a bounded set (SpecLineup, SpecPitcher, *)
(* SpecAtBat, SpecTeamObject).                                             *)
(***************************************************************************)
EXTENDS Integers, Sequences, FiniteSets, TLC

\* ------------------------------------------------------------------ bounds
\* Scores are unbounded in the code: a game explores only the plays that keep
\* both scores within MaxScore.
MaxScore == 2
\* The largest score a single play is resolved from.
MaxStartScore == 1
\* The largest batter pool and pitcher pool a roster function is called on.
MaxBatters == 10
MaxPitchers == 4
\* The longest team code typed in.
MaxCode == 3

\* ------------------------------------------------------- program constants
RegulationInnings == 9
InningLimit == 15
LineupSlots == 9
FatigueStep == 5            \* 0.05, in hundredths
NoIndex == -1               \* the Team object has no current_batter_index yet

TeamIds == {"T1", "T2"}     \* Team objects of the league
LineupSizes == {0, 8, 9}    \* len(get_starting_lineup()): min(9, len(batters))
NoPitcher == "None"
NoStarter == 0              \* get_starting_pitcher's None, among pool positions
StarterPick == 3            \* the [:3] of get_starting_pitcher
Ratings == {1, 2, 3}        \* overall ratings of the players of a pool

\* simulate_at_bat's constants.  Probabilities, OBP, OPS and the values of
\* random.random() are in thousandths; WHIP and fatigue are in hundredths.
AVG_WHIP == 130             \* 1.30
WHIP_COEFF == 4             \* 0.40: thousandths of OBP per hundredth of WHIP
DEFENSE_DIVISOR == 300
WALK_RATE == 225            \* 0.225
SINGLE_RATE == 755          \* 0.755
XBH_RATE == 920             \* 0.92
TRIPLE_CHANCE == 150        \* 0.15
ISO_MULTIPLIER == 25        \* 2.5, in tenths
OBP_FLOOR == 100            \* 0.100
OBP_CEILING == 700          \* 0.700
ONE == 1000                 \* 1.0

\* The at-bats simulate_at_bat is called on: the batter's obp and ops, the
\* pitcher's whip (99.99 is the value of an unparsable row), the fielding
\* team's defense, the fatigue, and the values random.random() yields, in the
\* order they are drawn, each set holding both sides of the thresholds.
ObpValues == {0, 300}
OpsValues == {0, 400, 800}
WhipValues == {130, 9999}
FatigueValues == {0, 75}
DefenseValues == {-30, 0, 60}
Draw1 == {0, 100, 101, 300, 301, 700, 701, 999}
Draw2 == {0, 199, 200, 999}
Draw3 == {0, 224, 225, 754, 755, 919, 920, 999}
Draw4 == {0, 149, 150, 750, 751, 999}
Results == {"OUT", "WALK", "SINGLE", "DOUBLE", "TRIPLE", "HR"}
EmptyBases == <<0, 0, 0>>
BaseStates == {<<a, b, c>> : a \in {0, 1}, b \in {0, 1}, c \in {0, 1}}

VARIABLES
    pc,                     \* position in Engine.play
    away_team, home_team,   \* the Team objects the engine holds
    lineup_len,             \* per Team object: length of its starting lineup
    away_pitcher, home_pitcher,
    current_batter_index,   \* per Team object
    home_score, away_score, inning,
    home_pitcher_fatigue, away_pitcher_fatigue,
    is_home, outs, bases,   \* the running half-inning
    winner,                 \* what declare_winner announced
    last_play,              \* the play resolved last (kept by the play harness)
    call, ret               \* a call of a roster or at-bat function, its result

vars == <<pc, away_team, home_team, lineup_len, away_pitcher, home_pitcher,
          current_batter_index, home_score, away_score, inning,
          home_pitcher_fatigue, away_pitcher_fatigue, is_home, outs, bases,
          winner, last_play, call, ret>>

setup == <<away_team, home_team, lineup_len, away_pitcher, home_pitcher>>
fatigue == <<home_pitcher_fatigue, away_pitcher_fatigue>>
scores == <<home_score, away_score>>
half == <<is_home, outs, bases>>
calls == <<call, ret>>
game == <<pc, setup, current_batter_index, scores, inning, fatigue, half,
          winner, last_play>>

NoCall == [fn |-> "none"]
NoRet == [status |-> "none"]

NoPlay == [result |-> "NONE", bases |-> EmptyBases, outs |-> 0,
           home_score |-> 0, away_score |-> 0, index |-> 0]

\* ---------------------------------------------------------- advance_runners
Occupied(b) == b[1] + b[2] + b[3]

WalkAdvanceNoForce(b) == [bases |-> <<1, b[2], b[3]>>, runs |-> 0]

\* The is_walk branch: nested tests on first, second and third, each writing
\* the list in place; the batter takes first.
WalkAdvance(b) ==
    LET s0 == [bases |-> b, runs |-> 0]
        forced2 ==
            IF b[2] = 1
            THEN [bases |-> <<b[1], b[2], 1>>,
                  runs |-> IF b[3] = 1 THEN 1 ELSE 0]
            ELSE s0
        forced1 == IF b[1] = 1 THEN [forced2 EXCEPT !.bases[2] = 1] ELSE s0
    IN  [forced1 EXCEPT !.bases[1] = 1]

ThirdRunnerNotCleared(s, hits) ==
    IF s.bases[3] = 1
    THEN [bases |-> s.bases, runs |-> s.runs + 1]
    ELSE s

\* The three runner blocks of the hit branch; each reads and writes the list
\* in place, so each takes the list the block before it left.
ThirdRunner(s, hits) ==
    IF s.bases[3] = 1
    THEN [bases |-> <<s.bases[1], s.bases[2], 0>>, runs |-> s.runs + 1]
    ELSE s

SecondRunnerNotCleared(s, hits) ==
    IF s.bases[2] = 1
    THEN IF hits >= 2
         THEN [bases |-> <<s.bases[1], 0, s.bases[3]>>, runs |-> s.runs + 1]
         ELSE [bases |-> <<s.bases[1], 1, 1>>, runs |-> s.runs]
    ELSE s

SecondRunner(s, hits) ==
    IF s.bases[2] = 1
    THEN IF hits >= 2
         THEN [bases |-> <<s.bases[1], 0, s.bases[3]>>, runs |-> s.runs + 1]
         ELSE [bases |-> <<s.bases[1], 0, 1>>, runs |-> s.runs]
    ELSE s

FirstRunner(s, hits) ==
    IF s.bases[1] = 1
    THEN IF hits = 3
         THEN [bases |-> <<0, s.bases[2], s.bases[3]>>, runs |-> s.runs + 1]
         ELSE IF hits = 2
              THEN [bases |-> <<0, s.bases[2], 1>>, runs |-> s.runs]
              ELSE [bases |-> <<0, 1, s.bases[3]>>, runs |-> s.runs]
    ELSE s

PlaceBatter(s, hits) ==
    IF hits = 1 THEN [s EXCEPT !.bases[1] = 1]
    ELSE IF hits = 2 THEN [s EXCEPT !.bases[2] = 1]
    ELSE IF hits = 3 THEN [s EXCEPT !.bases[3] = 1]
    ELSE s

HitAdvanceFirstBaseFirst(b, hits) ==
    PlaceBatter(
        ThirdRunner(
            SecondRunner(
                FirstRunner([bases |-> b, runs |-> 0], hits), hits), hits), hits)

HitAdvance(b, hits) ==
    PlaceBatter(
        FirstRunner(
            SecondRunner(
                ThirdRunner([bases |-> b, runs |-> 0], hits), hits), hits), hits)

AdvanceRunnersWalkAsHit(b, hits, is_walk) == HitAdvance(b, hits)

AdvanceRunners(b, hits, is_walk) ==
    IF is_walk THEN WalkAdvance(b) ELSE HitAdvance(b, hits)

HomeRunBatterCountedTwice(b) == [bases |-> EmptyBases, runs |-> Occupied(b) + 2]

HomeRunBatterNotCounted(b) == [bases |-> EmptyBases, runs |-> Occupied(b)]

\* The HR branch of play_half_inning.
HomeRun(b) == [bases |-> EmptyBases, runs |-> Occupied(b) + 1]

OutcomeOutRetiresLeadRunner(b, result) ==
    CASE result = "OUT" -> [bases |-> <<b[1], b[2], 0>>, runs |-> 0]
      [] result = "WALK" -> AdvanceRunners(b, 1, TRUE)
      [] result = "SINGLE" -> AdvanceRunners(b, 1, FALSE)
      [] result = "DOUBLE" -> AdvanceRunners(b, 2, FALSE)
      [] result = "TRIPLE" -> AdvanceRunners(b, 3, FALSE)
      [] result = "HR" -> HomeRun(b)

\* The if/elif chain of play_half_inning on the at-bat's result.
Outcome(b, result) ==
    CASE result = "OUT" -> [bases |-> b, runs |-> 0]
      [] result = "WALK" -> AdvanceRunners(b, 1, TRUE)
      [] result = "SINGLE" -> AdvanceRunners(b, 1, FALSE)
      [] result = "DOUBLE" -> AdvanceRunners(b, 2, FALSE)
      [] result = "TRIPLE" -> AdvanceRunners(b, 3, FALSE)
      [] result = "HR" -> HomeRun(b)

\* ------------------------------------------------------------- Engine.play
BattingTeam == IF is_home THEN home_team ELSE away_team

LoopCondEightInnings == inning < RegulationInnings \/ away_score = home_score

LoopCond == inning <= RegulationInnings \/ away_score = home_score

PastLimitOffByOne == inning > InningLimit + 1

PastLimit == inning > InningLimit

WalkOffNever == FALSE

WalkOffOnTie ==
    inning >= RegulationInnings /\ is_home /\ home_score >= away_score

WalkOff == inning >= RegulationInnings /\ is_home /\ home_score > away_score

SkipBottomAfterNinth == inning > RegulationInnings /\ home_score > away_score

SkipBottomCond == inning >= RegulationInnings /\ home_score > away_score

NextBatter(i) == (i + 1) % LineupSlots

NextInning(i) == i + 1

DeclareWinner ==
    IF home_score > away_score THEN "home"
    ELSE IF away_score > home_score THEN "away"
    ELSE "tie"

Init ==
    /\ pc = "start"
    /\ away_team = "T1"
    /\ home_team \in TeamIds
    /\ lineup_len \in [TeamIds -> LineupSizes]
    /\ \E has_pitchers \in [TeamIds -> BOOLEAN] :
          /\ home_team = away_team =>
                (lineup_len["T2"] = LineupSlots /\ has_pitchers["T2"])
          /\ away_pitcher = IF has_pitchers[away_team] THEN "SP" ELSE NoPitcher
          /\ home_pitcher = IF has_pitchers[home_team] THEN "SP" ELSE NoPitcher
    /\ current_batter_index = [t \in TeamIds |-> NoIndex]
    /\ home_score = 0
    /\ away_score = 0
    /\ inning = 1
    /\ home_pitcher_fatigue = 0
    /\ away_pitcher_fatigue = 0
    /\ is_home = FALSE
    /\ outs = 0
    /\ bases = EmptyBases
    /\ winner = "none"
    /\ last_play = NoPlay
    /\ call = NoCall
    /\ ret = NoRet

PlayBallAwayNameOnly ==
    /\ pc = "start"
    /\ away_pitcher # NoPitcher
    /\ pc' = "loop"
    /\ UNCHANGED <<calls, setup, current_batter_index, scores, inning, fatigue, half,
                   winner, last_play>>

\* play(), the opening prints: they read both pitchers' names.
PlayBall ==
    /\ pc = "start"
    /\ away_pitcher # NoPitcher /\ home_pitcher # NoPitcher
    /\ pc' = "loop"
    /\ UNCHANGED <<calls, setup, current_batter_index, scores, inning, fatigue, half,
                   winner, last_play>>

PlayBallFails ==
    /\ pc = "start"
    /\ away_pitcher = NoPitcher \/ home_pitcher = NoPitcher
    /\ pc' = "crashed"
    /\ UNCHANGED <<calls, setup, current_batter_index, scores, inning, fatigue, half,
                   winner, last_play>>

BeginHalfResetsIndex(home) ==
    /\ pc' = "half"
    /\ is_home' = home
    /\ outs' = 0
    /\ bases' = EmptyBases
    /\ LET t == IF home THEN home_team ELSE away_team
       IN  current_batter_index' = [current_batter_index EXCEPT ![t] = 0]
    /\ UNCHANGED <<calls, setup, scores, inning, fatigue, winner, last_play>>

BeginHalfKeepsBases(home) ==
    /\ pc' = "half"
    /\ is_home' = home
    /\ outs' = 0
    /\ LET t == IF home THEN home_team ELSE away_team
       IN  current_batter_index' =
               IF current_batter_index[t] = NoIndex
               THEN [current_batter_index EXCEPT ![t] = 0]
               ELSE current_batter_index
    /\ UNCHANGED <<calls, setup, scores, inning, fatigue, bases, winner, last_play>>

\* The head of play_half_inning: fresh outs and bases, the lineup, and the
\* batter index created on a Team object that has none.
BeginHalf(home) ==
    /\ pc' = "half"
    /\ is_home' = home
    /\ outs' = 0
    /\ bases' = EmptyBases
    /\ LET t == IF home THEN home_team ELSE away_team
       IN  current_batter_index' =
               IF current_batter_index[t] = NoIndex
               THEN [current_batter_index EXCEPT ![t] = 0]
               ELSE current_batter_index
    /\ UNCHANGED <<calls, setup, scores, inning, fatigue, winner, last_play>>

EndInningNoAdvance ==
    /\ pc' = "loop"
    /\ UNCHANGED <<calls, setup, current_batter_index, scores, inning, fatigue, half,
                   winner, last_play>>

EndInningAwayFatigueOnly ==
    /\ pc' = "loop"
    /\ away_pitcher_fatigue' = away_pitcher_fatigue + FatigueStep
    /\ inning' = NextInning(inning)
    /\ UNCHANGED <<calls, setup, current_batter_index, scores, home_pitcher_fatigue,
                   half, winner, last_play>>

\* The end of one pass of play()'s loop body.
EndInning ==
    /\ pc' = "loop"
    /\ home_pitcher_fatigue' = home_pitcher_fatigue + FatigueStep
    /\ away_pitcher_fatigue' = away_pitcher_fatigue + FatigueStep
    /\ inning' = NextInning(inning)
    /\ UNCHANGED <<calls, setup, current_batter_index, scores, half, winner, last_play>>

Finish ==
    /\ pc' = "done"
    /\ winner' = DeclareWinner
    /\ UNCHANGED <<calls, setup, current_batter_index, scores, inning, fatigue, half,
                   last_play>>

GameCalled == pc = "loop" /\ LoopCond /\ PastLimit /\ Finish

GameOver == pc = "loop" /\ ~LoopCond /\ Finish

StartTop == pc = "loop" /\ LoopCond /\ ~PastLimit /\ BeginHalf(FALSE)

\* One pass of the while loop of play_half_inning.
AtBatReady == pc = "half" /\ outs < 3 /\ ~WalkOff

Resolve(result) ==
    /\ AtBatReady
    /\ current_batter_index[BattingTeam] < lineup_len[BattingTeam]
    /\ LET o == Outcome(bases, result)
       IN  /\ bases' = o.bases
           /\ outs' = IF result = "OUT" THEN outs + 1 ELSE outs
           /\ home_score' = IF is_home THEN home_score + o.runs ELSE home_score
           /\ away_score' = IF is_home THEN away_score ELSE away_score + o.runs
    /\ current_batter_index' =
           [current_batter_index EXCEPT
                ![BattingTeam] = NextBatter(current_batter_index[BattingTeam])]
    /\ UNCHANGED <<calls, pc, setup, inning, fatigue, is_home, winner>>

AtBat ==
    \E result \in Results :
        /\ Resolve(result)
        /\ home_score' <= MaxScore /\ away_score' <= MaxScore
        /\ UNCHANGED last_play

\* lineup[current_batter_index] past the end of a short lineup.
AtBatIndexError ==
    /\ AtBatReady
    /\ current_batter_index[BattingTeam] >= lineup_len[BattingTeam]
    /\ pc' = "crashed"
    /\ UNCHANGED <<calls, setup, current_batter_index, scores, inning, fatigue, half,
                   winner, last_play>>

HalfOver == pc = "half" /\ ~(outs < 3 /\ ~WalkOff)

SkipBottom == HalfOver /\ ~is_home /\ SkipBottomCond /\ EndInning

StartBottom == HalfOver /\ ~is_home /\ ~SkipBottomCond /\ BeginHalf(TRUE)

EndBottom == HalfOver /\ is_home /\ EndInning

Next ==
    \/ PlayBall
    \/ PlayBallFails
    \/ GameCalled
    \/ GameOver
    \/ StartTop
    \/ AtBat
    \/ AtBatIndexError
    \/ SkipBottom
    \/ StartBottom
    \/ EndBottom

Spec == Init /\ [][Next]_vars

\* play() runs to completion: no loop head waits forever, and the random draw
\* of simulate_at_bat does not avoid OUT forever.
AtBatOut == Resolve("OUT") /\ UNCHANGED last_play

FairSpec ==
    /\ Spec
    /\ WF_vars(PlayBall \/ PlayBallFails)
    /\ WF_vars(GameCalled \/ GameOver \/ StartTop)
    /\ WF_vars(SkipBottom \/ StartBottom \/ EndBottom)
    /\ WF_vars(AtBatIndexError)
    /\ WF_vars(AtBatOut)

\* ------------------------------------------------- one play, from any state
\* A single pass of the while loop of play_half_inning, entered in the 8th or
\* 9th inning (by then every batter index, out count, base state and small
\* score has been reachable) with either side batting, and the play recorded.
InitPlay ==
    /\ pc = "half"
    /\ away_team = "T1"
    /\ home_team = "T2"
    /\ lineup_len = [t \in TeamIds |-> LineupSlots]
    /\ away_pitcher = "SP"
    /\ home_pitcher = "SP"
    /\ current_batter_index \in [TeamIds -> {0, LineupSlots - 1}]
    /\ home_score \in 0..MaxStartScore
    /\ away_score \in 0..MaxStartScore
    /\ inning \in {RegulationInnings - 1, RegulationInnings}
    /\ home_pitcher_fatigue = (inning - 1) * FatigueStep
    /\ away_pitcher_fatigue = (inning - 1) * FatigueStep
    /\ is_home \in BOOLEAN
    /\ outs \in 0..2
    /\ bases \in BaseStates
    /\ ~WalkOff
    /\ winner = "none"
    /\ last_play = NoPlay
    /\ call = NoCall
    /\ ret = NoRet

PlayOnce ==
    /\ last_play = NoPlay
    /\ \E result \in Results :
          /\ Resolve(result)
          /\ last_play' = [result |-> result, bases |-> bases, outs |-> outs,
                           home_score |-> home_score, away_score |-> away_score,
                           index |-> current_batter_index[BattingTeam]]

NextPlay == PlayOnce

SpecPlay == InitPlay /\ [][NextPlay]_vars

\* ------------------------------------------------------------ Team (roster)
\* A pool is the list self.batters or self.pitchers in load order, each
\* player given by its overall; a player is named by its position in the pool.
Pools(max) == UNION {[1..n -> Ratings] : n \in 0..max}

\* sorted(pool, key=lambda p: p.overall, reverse=True): a stable sort, so
\* players of equal overall keep their pool order.  Before(pool, i) are the
\* players the sort puts ahead of player i.
Before(pool, i) ==
    {j \in 1..Len(pool) : pool[j] > pool[i] \/ (pool[j] = pool[i] /\ j < i)}

SortedByOverall(pool) ==
    [k \in 1..Len(pool) |->
        CHOOSE i \in 1..Len(pool) : Cardinality(Before(pool, i)) = k - 1]

FirstOf(s, n) == SubSeq(s, 1, IF Len(s) < n THEN Len(s) ELSE n)

GetStartingLineup(batters) ==
    IF Len(batters) < LineupSlots
    THEN [k \in 1..Len(batters) |-> k]
    ELSE FirstOf(SortedByOverall(batters), LineupSlots)

TopThreeInPoolOrder(pitchers) ==
    FirstOf([k \in 1..Len(pitchers) |-> k], StarterPick)

TopThree(pitchers) == FirstOf(SortedByOverall(pitchers), StarterPick)

\* The values get_starting_pitcher can return: None, or random.choice(top_3).
GetStartingPitcher(pitchers) ==
    IF Len(pitchers) = 0
    THEN {NoStarter}
    ELSE {TopThree(pitchers)[k] : k \in 1..Len(TopThree(pitchers))}

\* The engine as constructed, untouched while a function is called on its own.
Idle ==
    /\ pc = "start"
    /\ away_team = "T1"
    /\ home_team = "T2"
    /\ lineup_len = [t \in TeamIds |-> LineupSlots]
    /\ away_pitcher = "SP"
    /\ home_pitcher = "SP"
    /\ current_batter_index = [t \in TeamIds |-> NoIndex]
    /\ home_score = 0
    /\ away_score = 0
    /\ inning = 1
    /\ home_pitcher_fatigue = 0
    /\ away_pitcher_fatigue = 0
    /\ is_home = FALSE
    /\ outs = 0
    /\ bases = EmptyBases
    /\ winner = "none"
    /\ last_play = NoPlay

Pending == [status |-> "pending"]

Returned(v) == [status |-> "returned", value |-> v]

InitLineup ==
    /\ Idle
    /\ call \in [fn : {"get_starting_lineup"}, batters : Pools(MaxBatters)]
    /\ ret = Pending

GetStartingLineupCall ==
    /\ call.fn = "get_starting_lineup"
    /\ ret = Pending
    /\ ret' = Returned(GetStartingLineup(call.batters))
    /\ UNCHANGED <<call, game>>

NextLineup == GetStartingLineupCall

SpecLineup == InitLineup /\ [][NextLineup]_vars

InitPitcher ==
    /\ Idle
    /\ call \in [fn : {"get_starting_pitcher"}, pitchers : Pools(MaxPitchers)]
    /\ ret = Pending

GetStartingPitcherCall ==
    /\ call.fn = "get_starting_pitcher"
    /\ ret = Pending
    /\ \E p \in GetStartingPitcher(call.pitchers) : ret' = Returned(p)
    /\ UNCHANGED <<call, game>>

NextPitcher == GetStartingPitcherCall

SpecPitcher == InitPitcher /\ [][NextPitcher]_vars

\* --------------------------------------------------------- simulate_at_bat
Max(a, b) == IF b > a THEN b ELSE a

Min(a, b) == IF b < a THEN b ELSE a

ClampObpCeilingOnly(x) == Min(OBP_CEILING, x)

\* max(0.100, min(0.700, adjusted_obp))
ClampObp(x) == Max(OBP_FLOOR, Min(OBP_CEILING, x))

\* batter.obp + ((pitcher.whip + fatigue) - AVG_WHIP) * WHIP_COEFF, clamped.
AdjustedObp(obp, whip, tired) ==
    ClampObp(obp + ((whip + tired) - AVG_WHIP) * WHIP_COEFF)

\* random.random() < max(0, defense_rating / DEFENSE_DIVISOR), both sides
\* multiplied by DEFENSE_DIVISOR.
DefenseSaves(defense_rating, roll) ==
    DEFENSE_DIVISOR * roll < Max(0, ONE * defense_rating)

\* random.random() > 1.0 - (ops - obp) * ISO_MULTIPLIER, both sides times 10.
PowerCheck(obp, ops, roll) ==
    10 * roll > 10 * ONE - (ops - obp) * ISO_MULTIPLIER

HitTypeReusesRoll(obp, ops, type_roll, roll) ==
    IF type_roll < WALK_RATE THEN [result |-> "WALK", drawn |-> 3]
    ELSE IF type_roll < SINGLE_RATE THEN [result |-> "SINGLE", drawn |-> 3]
    ELSE IF type_roll < XBH_RATE
         THEN [result |-> IF type_roll < TRIPLE_CHANCE THEN "TRIPLE" ELSE "DOUBLE",
               drawn |-> 4]
         ELSE [result |-> IF PowerCheck(obp, ops, roll) THEN "HR" ELSE "DOUBLE",
               drawn |-> 4]

\* Step 3 and 4: the chain on type_roll; roll is the draw either of its last
\* two branches makes.
HitType(obp, ops, type_roll, roll) ==
    IF type_roll < WALK_RATE THEN [result |-> "WALK", drawn |-> 3]
    ELSE IF type_roll < SINGLE_RATE THEN [result |-> "SINGLE", drawn |-> 3]
    ELSE IF type_roll < XBH_RATE
         THEN [result |-> IF roll < TRIPLE_CHANCE THEN "TRIPLE" ELSE "DOUBLE",
               drawn |-> 4]
         ELSE [result |-> IF PowerCheck(obp, ops, roll) THEN "HR" ELSE "DOUBLE",
               drawn |-> 4]

\* The result, and how many values of random.random() were drawn.
SimulateAtBat(c) ==
    IF c.draws[1] > AdjustedObp(c.obp, c.whip, c.fatigue)
    THEN [result |-> "OUT", drawn |-> 1]
    ELSE IF DefenseSaves(c.defense_rating, c.draws[2])
         THEN [result |-> "OUT", drawn |-> 2]
         ELSE HitType(c.obp, c.ops, c.draws[3], c.draws[4])

InitAtBat ==
    /\ Idle
    /\ call \in [fn : {"simulate_at_bat"}, obp : ObpValues, ops : OpsValues,
                 whip : WhipValues, fatigue : FatigueValues,
                 defense_rating : DefenseValues,
                 draws : Draw1 \X Draw2 \X Draw3 \X Draw4]
    /\ ret = Pending

SimulateAtBatCall ==
    /\ call.fn = "simulate_at_bat"
    /\ ret = Pending
    /\ ret' = Returned(SimulateAtBat(call))
    /\ UNCHANGED <<call, game>>

NextAtBat == SimulateAtBatCall

SpecAtBat == InitAtBat /\ [][NextAtBat]_vars

\* ---------------------------------------------------------- get_team_object
\* A string is the sequence of its characters.
Chars == {"n", "N", "y", "Y", " "}
Whitespace == {" "}
Codes == UNION {[1..n -> Chars] : n \in 0..MaxCode}

NoTeam == "None"

\* The league dictionaries: any set of these keys, each with its Team object.
LeagueKeys == {<<"N", "Y">>, <<"N">>, <<"n", "y">>}
TeamAt(key) ==
    IF key = <<"N", "Y">> THEN "T1" ELSE IF key = <<"N">> THEN "T2" ELSE "T3"
Leagues == {[k \in keys |-> TeamAt(k)] : keys \in SUBSET LeagueKeys}

\* str.upper(), character by character.
UpperChar(ch) == IF ch = "n" THEN "N" ELSE IF ch = "y" THEN "Y" ELSE ch

Upper(s) == [i \in 1..Len(s) |-> UpperChar(s[i])]

\* str.strip(): whitespace removed from both ends.
RECURSIVE LStrip(_)
LStrip(s) ==
    IF Len(s) > 0 /\ Head(s) \in Whitespace THEN LStrip(Tail(s)) ELSE s

RECURSIVE RStrip(_)
RStrip(s) ==
    IF Len(s) > 0 /\ s[Len(s)] \in Whitespace
    THEN RStrip(SubSeq(s, 1, Len(s) - 1))
    ELSE s

Strip(s) == RStrip(LStrip(s))

GetTeamObjectNoUpper(league, code) ==
    LET key == Strip(code)
    IN  [value |-> IF key \in DOMAIN league THEN league[key] ELSE NoTeam,
         league |-> league]

\* The value returned, and the league dictionary as the call leaves it.
GetTeamObject(league, code) ==
    LET key == Strip(Upper(code))
    IN  [value |-> IF key \in DOMAIN league THEN league[key] ELSE NoTeam,
         league |-> league]

InitTeamObject ==
    /\ Idle
    /\ call \in [fn : {"get_team_object"}, league : Leagues, code : Codes]
    /\ ret = Pending

GetTeamObjectCall ==
    /\ call.fn = "get_team_object"
    /\ ret = Pending
    /\ ret' = Returned(GetTeamObject(call.league, call.code))
    /\ UNCHANGED <<call, game>>

NextTeamObject == GetTeamObjectCall

SpecTeamObject == InitTeamObject /\ [][NextTeamObject]_vars

\* ------------------------------------------------------------------ claims
\* A step that resolves a plate appearance: the half-inning goes on.
PAStep == pc = "half" /\ pc' = "half" /\ is_home' = is_home

\* A step that ends the running half-inning.
HalfEndStep == pc = "half" /\ (pc' = "loop" \/ (pc' = "half" /\ is_home' # is_home))

HomeAheadLate == inning >= 9 /\ is_home /\ home_score > away_score

\* The home team went ahead in the bottom of an inning >= 9: the state the
\* winning play left, and the loop head of play() after that half-inning.
HomeHasWon ==
    /\ home_score > away_score
    /\ \/ pc = "half" /\ is_home /\ inning >= 9
       \/ pc = "loop" /\ is_home /\ inning >= 10

\* Every half-inning that runs reaches its third out or a walk-off.
HalvesFinish == [](pc = "half" => <>(pc = "half" /\ (outs = 3 \/ HomeAheadLate)))

\* C1: no plate appearance is resolved in an inning above 15: the inning
\* counter never passes 16, no half-inning runs with the counter above 15, and
\* from the loop head with the counter above 15 the only step is to
\* declare_winner.
InningCapC1 ==
    /\ [](inning <= 16 /\ (pc = "half" => inning <= 15))
    /\ [][(pc = "loop" /\ inning > 15) => (pc' = "done" /\ winner' # "none")]_vars

GameCalledReachedC1 ==
    pc = "done" /\ inning = 16 /\ winner = "tie" /\ home_score = 0

\* C2: once the home team is strictly ahead in the bottom of an inning >= 9,
\* no step changes a score, a batter index, the outs or the bases any more:
\* the half-inning's only step is its end, back to the loop head of play(),
\* whose only step is declare_winner with the home team the winner, and
\* neither of the two states is stuck.
WalkOffEndsGameC2 ==
    /\ [][HomeHasWon =>
            /\ UNCHANGED <<scores, current_batter_index, outs, bases>>
            /\ pc = "half" => (pc' = "loop" /\ is_home' /\ inning' >= 10)
            /\ pc = "loop" => (pc' = "done" /\ winner' = "home")]_vars
    /\ [](HomeHasWon => ENABLED Next)

WalkOffReachedC2 ==
    /\ pc = "done" /\ winner = "home" /\ inning = 10
    /\ is_home /\ outs < 3 /\ bases = <<0, 1, 0>>

\* C3: declare_winner is reached only with the inning counter at 10 or more;
\* an inning above 9 starts only with the scores tied; and a game that ends
\* tied ends with the counter at 16, that is after exactly 15 innings.
NoEarlyEndC3 ==
    /\ [](pc = "done" =>
            /\ inning >= 10
            /\ home_score = away_score => inning = 16)
    /\ [][(pc = "loop" /\ pc' = "half" /\ inning >= 10) =>
            home_score = away_score]_vars

ExtraInningsWinC3 ==
    pc = "done" /\ inning \in 12..15 /\ winner = "away"

\* C4: under FairSpec (no loop head waits forever, OUT is not avoided
\* forever), if every half-inning that runs reaches its third out or a
\* walk-off, a game that has entered the loop of play() reaches
\* declare_winner, whatever the scores.
TerminationC4 == HalvesFinish => ((pc = "loop") ~> (pc = "done"))

TiedToTheEndC4 ==
    pc = "done" /\ inning = 16 /\ home_score = 2 /\ away_score = 2

\* C5: no plate appearance is resolved with the home team batting in an
\* inning >= 9 while it is strictly ahead, and a top half of an inning >= 9
\* that ends with the home team strictly ahead is followed by the end of the
\* inning, not by a bottom half.
BottomSkippedC5 ==
    /\ [][PAStep => ~HomeAheadLate]_vars
    /\ [][(pc = "half" /\ ~is_home /\ outs = 3 /\ inning >= 9
            /\ home_score > away_score) =>
            /\ pc' = "loop" /\ inning' = inning + 1 /\ ~is_home'
            /\ UNCHANGED <<scores, current_batter_index>>]_vars

BottomSkippedReachedC5 ==
    pc = "done" /\ winner = "home" /\ ~is_home /\ outs = 3 /\ inning = 10

\* C6: outs stay within 0..3; a half-inning ends only with 3 outs or with the
\* home team batting strictly ahead in an inning >= 9, and then it does end;
\* a top half ends with exactly 3 outs; with fewer than 3 outs and no such
\* lead (a tie in the bottom of the 9th included) the next step is another
\* pass of the at-bat loop.
HalfInningEndC6 ==
    /\ [](outs \in 0..3)
    /\ [][HalfEndStep => (outs = 3 \/ HomeAheadLate)]_vars
    /\ [][(HalfEndStep /\ ~is_home) => outs = 3]_vars
    /\ [][(pc = "half" /\ (outs = 3 \/ HomeAheadLate)) => HalfEndStep]_vars
    /\ [][(pc = "half" /\ outs < 3 /\ ~HomeAheadLate) =>
            /\ ~HalfEndStep
            /\ current_batter_index[BattingTeam] < lineup_len[BattingTeam]
                    => PAStep]_vars

TieInBottomNinthC6 ==
    /\ pc = "half" /\ is_home /\ inning = 9 /\ outs = 2
    /\ home_score = 1 /\ away_score = 1 /\ bases = <<1, 0, 1>>

\* --------------------------------------------------- claims about one play
Played(result) == last_play.result = result

BattingBefore == IF is_home THEN last_play.home_score ELSE last_play.away_score

BattingNow == IF is_home THEN home_score ELSE away_score

FieldingUnchanged ==
    IF is_home THEN away_score = last_play.away_score
    ELSE home_score = last_play.home_score

HitsOf(result) ==
    IF result = "SINGLE" THEN 1 ELSE IF result = "DOUBLE" THEN 2 ELSE 3

\* The rule of a hit of n bases, runner by runner.
HitRuns(b, n) ==
    b[3] + (IF n >= 2 THEN b[2] ELSE 0) + (IF n = 3 THEN b[1] ELSE 0)

HitBases(b, n) ==
    IF n = 1 THEN <<1, b[1], b[2]>>
    ELSE IF n = 2 THEN <<0, 1, b[1]>>
    ELSE <<0, 0, 1>>

\* C7: after a SINGLE, DOUBLE or TRIPLE (n = 1, 2, 3) from any of the 8 base
\* states: the runner on third scored; the runner on second scored if n >= 2
\* and is on third otherwise; the runner on first scored if n = 3, is on third
\* if n = 2 and on second if n = 1; the batter is on base n; the batting
\* team's score rose by the number of runners who scored and the other score
\* did not change.
HitAdvanceC7 ==
    \A result \in {"SINGLE", "DOUBLE", "TRIPLE"} :
        Played(result) =>
            /\ bases = HitBases(last_play.bases, HitsOf(result))
            /\ BattingNow = BattingBefore + HitRuns(last_play.bases, HitsOf(result))
            /\ FieldingUnchanged
            /\ (result = "DOUBLE" /\ last_play.bases = <<1, 0, 0>>) =>
                    (bases = <<0, 1, 1>> /\ BattingNow = BattingBefore)
            /\ (result = "SINGLE" /\ last_play.bases = <<1, 1, 0>>) =>
                    (bases = <<1, 1, 1>> /\ BattingNow = BattingBefore)

DoubleFromFirstC7 ==
    /\ Played("DOUBLE") /\ last_play.bases = <<1, 0, 0>>
    /\ bases = <<0, 1, 1>> /\ scores = <<last_play.home_score, last_play.away_score>>

\* C8: after a WALK from any of the 8 base states the batter is on first; second
\* is occupied if first was (the forced runner) and otherwise keeps its
\* runner; third is occupied if first and second both were and otherwise
\* keeps its runner; exactly one run scores if all three bases were occupied
\* and none otherwise.
WalkForcedC8 ==
    Played("WALK") =>
        LET b == last_play.bases
            loaded == b = <<1, 1, 1>>
        IN  /\ bases[1] = 1
            /\ bases[2] = (IF b[1] = 1 THEN 1 ELSE b[2])
            /\ bases[3] = (IF b[1] = 1 /\ b[2] = 1 THEN 1 ELSE b[3])
            /\ BattingNow = BattingBefore + (IF loaded THEN 1 ELSE 0)
            /\ FieldingUnchanged
            /\ b = <<1, 0, 0>> => (bases = <<1, 1, 0>> /\ BattingNow = BattingBefore)
            /\ b = <<0, 1, 1>> => (bases = <<1, 1, 1>> /\ BattingNow = BattingBefore)
            /\ loaded => (bases = <<1, 1, 1>> /\ BattingNow = BattingBefore + 1)

WalkUnforcedC8 ==
    /\ Played("WALK") /\ last_play.bases = <<0, 1, 1>>
    /\ bases = <<1, 1, 1>> /\ scores = <<last_play.home_score, last_play.away_score>>

\* C9: after a HR from any of the 8 base states the batting team's score rose by
\* the number of bases occupied before the play plus 1, the other score did
\* not change, and the bases the next plate appearance finds are empty.
HomeRunC9 ==
    Played("HR") =>
        /\ BattingNow = BattingBefore
                + last_play.bases[1] + last_play.bases[2] + last_play.bases[3] + 1
        /\ FieldingUnchanged
        /\ bases = <<0, 0, 0>>
        /\ last_play.bases = <<1, 0, 1>> => BattingNow = BattingBefore + 3

HomeRunFromCornersC9 ==
    /\ Played("HR") /\ last_play.bases = <<1, 0, 1>> /\ ~is_home
    /\ bases = <<0, 0, 0>> /\ away_score = last_play.away_score + 3

\* C10: the bases are always three slots holding 0 or 1, and no plate
\* appearance raises the number of occupied bases by more than 1.
BaseStateC10 ==
    /\ [](/\ Len(bases) = 3
          /\ \A i \in 1..3 : bases[i] \in {0, 1}
          /\ bases[1] + bases[2] + bases[3] \in 0..3)
    /\ [][PAStep =>
            bases'[1] + bases'[2] + bases'[3] <= bases[1] + bases[2] + bases[3] + 1]_vars

BasesLoadedC10 == pc = "half" /\ bases = <<1, 1, 1>> /\ outs = 0 /\ inning = 1

\* C11: on every play, from every base state, the runs scored on the play plus
\* the runners on base after it are at most the runners on base before it plus
\* 1 (the batter): no play creates a runner or a run out of nothing.
RunConservationC11 ==
    last_play.result # "NONE" =>
        (BattingNow - BattingBefore) + bases[1] + bases[2] + bases[3]
            <= last_play.bases[1] + last_play.bases[2] + last_play.bases[3] + 1

GrandSlamC11 ==
    /\ Played("HR") /\ last_play.bases = <<1, 1, 1>>
    /\ BattingNow - BattingBefore = 4 /\ bases = <<0, 0, 0>>

\* C12: a team's batter index, once the team has come to bat, is always in
\* 0..8 (it does not exist before that); every resolved plate appearance,
\* whatever its result, moves the batting team's index to the next slot
\* modulo 9 and leaves the other team's alone; and no other step, the start
\* of a half-inning included, changes an index that exists, so a team's
\* half-inning opens with the batter after the last one of its previous
\* half-inning.
BatterIndexC12 ==
    /\ [](/\ \A t \in {away_team, home_team} :
                current_batter_index[t] \in 0..8 \/ current_batter_index[t] = -1
          /\ pc = "half" =>
                current_batter_index[IF is_home THEN home_team ELSE away_team] \in 0..8)
    /\ [][PAStep =>
            \A t \in {away_team, home_team} :
                current_batter_index'[t] =
                    IF t = (IF is_home THEN home_team ELSE away_team)
                    THEN (current_batter_index[t] + 1) % 9
                    ELSE current_batter_index[t]]_vars
    /\ [][~PAStep =>
            \A t \in {away_team, home_team} :
                current_batter_index[t] # -1 =>
                    current_batter_index'[t] = current_batter_index[t]]_vars

\* The away team opens the 2nd inning with its 6th batter and no runs: five
\* batters came up in the 1st, three were out and two were left on base.
OrderCarriedOverC12 ==
    /\ pc = "half" /\ inning = 2 /\ ~is_home /\ outs = 0 /\ home_team = "T2"
    /\ current_batter_index["T1"] = 5 /\ away_score = 0

\* C13: with a lineup of fewer than 9 batters (and at least one), every plate
\* appearance selects an existing lineup slot, and no half-inning stops on an
\* indexing failure.
ShortLineupC13 ==
    LET t == IF is_home THEN home_team ELSE away_team
    IN  lineup_len[t] \in 1..8 =>
            /\ (pc = "half" /\ outs < 3 /\ ~HomeAheadLate) =>
                    current_batter_index[t] < lineup_len[t]
            /\ pc = "crashed" =>
                    (away_pitcher = NoPitcher \/ home_pitcher = NoPitcher)

\* C14: when either starting pitcher is None, play() stops with a failure as
\* its first step: no half-inning is entered and no winner declared, and the
\* scores, the inning, both fatigues and the batter indices keep the values
\* the constructor gave them.
NullPitcherC14 ==
    /\ []((away_pitcher = "None" \/ home_pitcher = "None") =>
            /\ pc \in {"start", "crashed"}
            /\ home_score = 0 /\ away_score = 0 /\ inning = 1
            /\ home_pitcher_fatigue = 0 /\ away_pitcher_fatigue = 0
            /\ \A t \in {away_team, home_team} : current_batter_index[t] = -1
            /\ outs = 0 /\ bases = <<0, 0, 0>> /\ winner = "none")
    /\ [][(pc = "start" /\ (away_pitcher = "None" \/ home_pitcher = "None")) =>
            pc' = "crashed"]_vars
    /\ [](pc = "crashed" => ~ENABLED Next)

HomePitcherMissingC14 ==
    /\ pc = "crashed" /\ home_pitcher = "None" /\ away_pitcher = "SP"
    /\ home_score = 0 /\ away_score = 0 /\ inning = 1

\* C15: in hundredths, each pitcher's fatigue is 5 times the number of
\* completed innings (the inning counter less 1) at every moment of the game;
\* a fatigue changes only on the step that ends an inning, by exactly 5 for
\* both pitchers, also when the bottom half was skipped or cut short by a
\* walk-off; it never decreases and no plate appearance changes it.
FatigueC15 ==
    /\ [](/\ home_pitcher_fatigue = 5 * (inning - 1)
          /\ away_pitcher_fatigue = 5 * (inning - 1))
    /\ [][(pc = "half" /\ pc' = "loop") =>
            /\ home_pitcher_fatigue' = home_pitcher_fatigue + 5
            /\ away_pitcher_fatigue' = away_pitcher_fatigue + 5]_vars
    /\ [][~(pc = "half" /\ pc' = "loop") =>
            /\ home_pitcher_fatigue' = home_pitcher_fatigue
            /\ away_pitcher_fatigue' = away_pitcher_fatigue]_vars
    /\ [][/\ home_pitcher_fatigue' >= home_pitcher_fatigue
          /\ away_pitcher_fatigue' >= away_pitcher_fatigue]_vars

\* The bottom of the 9th was skipped, and the 9th inning still counted.
FatigueAfterSkippedBottomC15 ==
    /\ pc = "done" /\ ~is_home /\ inning = 10 /\ home_score > away_score
    /\ home_pitcher_fatigue = 45 /\ away_pitcher_fatigue = 45

\* C16: get_starting_lineup returns min(9, n) different batters of the pool,
\* in descending order of overall, none of the batters left out having a
\* strictly higher overall than one returned; with n < 9 the batters returned
\* are the whole pool.
StartingLineupC16 ==
    (call.fn = "get_starting_lineup" /\ ret.status = "returned") =>
        LET pool == call.batters
            n == Len(pool)
            lineup == ret.value
            chosen == {lineup[k] : k \in 1..Len(lineup)}
        IN  /\ Len(lineup) = (IF n < 9 THEN n ELSE 9)
            /\ chosen \subseteq 1..n
            /\ Cardinality(chosen) = Len(lineup)
            /\ \A k \in 1..Len(lineup) - 1 : pool[lineup[k]] >= pool[lineup[k + 1]]
            /\ \A out \in (1..n) \ chosen : \A in \in chosen : pool[out] <= pool[in]
            /\ n < 9 => chosen = 1..n

\* The pitchers of the pool with a strictly higher overall than pitcher p.
Higher(pool, p) == {j \in 1..Len(pool) : pool[j] > pool[p]}

\* The pitchers ahead of p when the pool is ordered by descending overall,
\* equal overalls in pool order.
Ahead(pool, p) ==
    {j \in 1..Len(pool) : pool[j] > pool[p] \/ (pool[j] = pool[p] /\ j < p)}

CanReturn(p) == ENABLED (GetStartingPitcherCall /\ ret'.value = p)

\* C17: get_starting_pitcher returns None exactly when the pool is empty;
\* otherwise it returns a pitcher of the pool with at most two pitchers of a
\* strictly higher overall, and every pitcher of the pool with at most two
\* pitchers of a strictly higher overall is a possible result.
StartingPitcherC17 ==
    call.fn = "get_starting_pitcher" =>
        LET pool == call.pitchers
        IN  /\ ret.status = "returned" =>
                /\ ret.value = 0 <=> Len(pool) = 0
                /\ ret.value # 0 =>
                      /\ ret.value \in 1..Len(pool)
                      /\ Cardinality(Higher(pool, ret.value)) <= 2
            /\ ret.status = "pending" =>
                \A p \in 1..Len(pool) :
                    Cardinality(Higher(pool, p)) <= 2 => CanReturn(p)

\* C17, amended: get_starting_pitcher returns None exactly when the pool is
\* empty; otherwise it returns one of the first min(3, n) pitchers of the
\* pool ordered by descending overall with equal overalls in pool order (so
\* at most two pitchers have a strictly higher overall), and each of those
\* min(3, n) pitchers is a possible result; a pitcher tied with them on
\* overall but later in the pool is never returned.
StartingPitcherStableC17 ==
    call.fn = "get_starting_pitcher" =>
        LET pool == call.pitchers
        IN  /\ ret.status = "returned" =>
                /\ ret.value = 0 <=> Len(pool) = 0
                /\ ret.value # 0 =>
                      /\ ret.value \in 1..Len(pool)
                      /\ Cardinality(Ahead(pool, ret.value)) <= 2
                      /\ Cardinality(Higher(pool, ret.value)) <= 2
            /\ ret.status = "pending" =>
                /\ \A p \in 1..Len(pool) :
                      Cardinality(Ahead(pool, p)) <= 2 <=> CanReturn(p)
                /\ Len(pool) = 0 => CanReturn(0)

\* The third of four pitchers was picked: the two best are ahead of him and
\* the fourth has his overall.
TiedForThirdC17 ==
    /\ call.fn = "get_starting_pitcher" /\ call.pitchers = <<3, 2, 1, 1>>
    /\ ret.status = "returned" /\ ret.value = 3

\* The on-base probability of the claims, in thousandths: obp plus 0.40 times
\* the pitcher's whip plus fatigue less 1.30, kept within 0.100 and 0.700.
OnBase(c) ==
    LET raw == c.obp + 4 * (c.whip + c.fatigue - 130)
    IN  IF raw < 100 THEN 100 ELSE IF raw > 700 THEN 700 ELSE raw

\* The gated pipeline of the claim on the draws r[1], r[2], ...
Pipeline(c) ==
    LET r == c.draws
    IN  IF r[1] > OnBase(c) THEN [result |-> "OUT", drawn |-> 1]
        ELSE IF c.defense_rating > 0 /\ 300 * r[2] < 1000 * c.defense_rating
             THEN [result |-> "OUT", drawn |-> 2]
        ELSE IF r[3] < 225 THEN [result |-> "WALK", drawn |-> 3]
        ELSE IF r[3] < 755 THEN [result |-> "SINGLE", drawn |-> 3]
        ELSE IF r[3] < 920
             THEN [result |-> IF r[4] < 150 THEN "TRIPLE" ELSE "DOUBLE", drawn |-> 4]
        ELSE [result |-> IF 2 * r[4] > 2000 - 5 * (c.ops - c.obp)
                         THEN "HR" ELSE "DOUBLE",
              drawn |-> 4]

\* C18: simulate_at_bat returns what the gated pipeline returns and draws as
\* many random values: OUT on the first draw above the on-base probability,
\* with nothing more drawn; else OUT on the second draw below
\* max(0, defense / 300); else by the third draw WALK below 0.225, SINGLE
\* below 0.755, below 0.92 TRIPLE when the next draw is below 0.15 and DOUBLE
\* otherwise, and from 0.92 HR when the next draw is above
\* 1.0 - (ops - obp) * 2.5 and DOUBLE otherwise.  The result is one of the six
\* outcomes, and with a defense of 0 or less an at-bat that passes the first
\* check is never an OUT.
AtBatPipelineC18 ==
    (call.fn = "simulate_at_bat" /\ ret.status = "returned") =>
        /\ ret.value = Pipeline(call)
        /\ ret.value.result \in {"OUT", "WALK", "SINGLE", "DOUBLE", "TRIPLE", "HR"}
        /\ (call.defense_rating <= 0 /\ ret.value.drawn >= 2) =>
                ret.value.result # "OUT"

\* A home run: both checks passed, the type roll at 0.92 and the power draw
\* above the batter's threshold of 0.75.
PowerHomeRunC18 ==
    /\ call.fn = "simulate_at_bat" /\ ret.status = "returned"
    /\ call.obp = 300 /\ call.ops = 400 /\ call.defense_rating = 60
    /\ call.draws = <<300, 200, 920, 751>> /\ ret.value.result = "HR"

\* C19: whatever the batter's obp, the pitcher's whip and the fatigue, a
\* first draw of 0.100 or less never gives the OUT of the contact check, and
\* a first draw above 0.700 always does: the on-base probability the check
\* uses is within 0.100 and 0.700.
OnBaseClampC19 ==
    (call.fn = "simulate_at_bat" /\ ret.status = "returned") =>
        /\ call.draws[1] <= 100 => ret.value.drawn >= 2
        /\ call.draws[1] > 700 => ret.value = [result |-> "OUT", drawn |-> 1]

\* A whip of 99.99 against an obp of 0.0: the probability is held at 0.700,
\* so a first draw of 0.700 passes the contact check.
WorstPitcherC19 ==
    /\ call.fn = "simulate_at_bat" /\ ret.status = "returned"
    /\ call.whip = 9999 /\ call.obp = 0 /\ call.draws[1] = 700
    /\ ret.value.drawn >= 2

\* C20: every half-inning starts with 0 outs and empty bases, whatever the
\* half-inning before it left; the step that ends a half-inning, and every
\* other step that is not a plate appearance, changes no score, so runners
\* left on base never score; a run is scored only by a plate appearance, for
\* the team at bat.
FreshHalfInningC20 ==
    /\ [][(pc' = "half" /\ (pc = "loop" \/ is_home' # is_home)) =>
            (outs' = 0 /\ bases' = <<0, 0, 0>>)]_vars
    /\ [][~PAStep => (home_score' = home_score /\ away_score' = away_score)]_vars
    /\ [][PAStep =>
            /\ home_score' >= home_score /\ away_score' >= away_score
            /\ is_home => away_score' = away_score
            /\ ~is_home => home_score' = home_score]_vars

\* The bottom of the 1st opens with empty bases and no score after the away
\* team sent six batters up: three were out and three were left on base.
StrandedRunnersC20 ==
    /\ pc = "half" /\ is_home /\ inning = 1 /\ outs = 0 /\ bases = <<0, 0, 0>>
    /\ home_team = "T2" /\ current_batter_index["T1"] = 6
    /\ away_score = 0 /\ home_score = 0

\* C21: both scores are non-negative integers; no play lowers either of them,
\* and a play raises the score of the team at bat by at most 4.
ScoresC21 ==
    /\ home_score \in Nat /\ away_score \in Nat
    /\ last_play.result # "NONE" =>
          /\ home_score >= last_play.home_score
          /\ away_score >= last_play.away_score
          /\ (home_score - last_play.home_score)
                + (away_score - last_play.away_score) <= 4

\* A grand slam by the home team in the bottom of the 8th, from 1 run to 5.
HomeGrandSlamC21 ==
    /\ last_play.result = "HR" /\ last_play.bases = <<1, 1, 1>>
    /\ is_home /\ inning = 8 /\ last_play.home_score = 1 /\ home_score = 5
    /\ away_score = last_play.away_score

\* The codes that read as the key k: k in any letter case, between any
\* blanks.
ReadsAs(code, k) ==
    \E lead \in 0..Len(code), trail \in 0..Len(code) :
        /\ lead + Len(k) + trail = Len(code)
        /\ \A i \in 1..lead : code[i] = " "
        /\ \A i \in 1..trail : code[Len(code) + 1 - i] = " "
        /\ \A i \in 1..Len(k) :
              \/ code[lead + i] = k[i]
              \/ k[i] = "N" /\ code[lead + i] = "n"
              \/ k[i] = "Y" /\ code[lead + i] = "y"

\* A key that an input can read as: upper case, no blank at either end.
UpperKey(k) ==
    /\ \A i \in 1..Len(k) : k[i] \notin {"n", "y"}
    /\ Len(k) > 0 => (k[1] # " " /\ k[Len(k)] # " ")

\* C22: get_team_object returns the team the league stores under the
\* upper-cased, whitespace-stripped input when the league has that key, in
\* whatever letter case and between whatever blanks the input was typed, and
\* None when it has not; the league is the same dictionary after the call.
TeamLookupC22 ==
    (call.fn = "get_team_object" /\ ret.status = "returned") =>
        /\ \A k \in DOMAIN call.league :
              (UpperKey(k) /\ ReadsAs(call.code, k)) => ret.value.value = call.league[k]
        /\ (~\E k \in DOMAIN call.league : UpperKey(k) /\ ReadsAs(call.code, k))
              => ret.value.value = "None"
        /\ ret.value.league = call.league

\* " ny" finds the team stored under "NY".
LowerCaseFoundC22 ==
    /\ call.fn = "get_team_object" /\ ret.status = "returned"
    /\ call.code = <<" ", "n", "y">>
    /\ DOMAIN call.league = {<<"N", "Y">>, <<"n", "y">>}
    /\ ret.value.value = "T1"

\* C23: no step taken while the away team bats changes home_score, and no
\* step taken while the home team bats changes away_score; a plate appearance
\* that adds an out changes neither score and no base, and it moves the
\* batting team's index to the next slot (the OUT is the only result that
\* adds an out: a plate appearance that adds none changes a base or a score).
BattingSideOnlyC23 ==
    /\ [][(pc = "half" /\ ~is_home) => home_score' = home_score]_vars
    /\ [][(pc = "half" /\ is_home) => away_score' = away_score]_vars
    /\ [][(PAStep /\ outs' # outs) =>
            /\ outs' = outs + 1
            /\ home_score' = home_score /\ away_score' = away_score
            /\ bases' = bases
            /\ LET t == IF is_home THEN home_team ELSE away_team
               IN  current_batter_index'[t] = (current_batter_index[t] + 1) % 9]_vars
    /\ [][(PAStep /\ outs' = outs) =>
            (bases' # bases \/ home_score' # home_score
                \/ away_score' # away_score)]_vars

\* The third out of the top of the 1st came with the bases loaded: six
\* batters, three on base, none scored.
OutWithBasesLoadedC23 ==
    /\ pc = "half" /\ ~is_home /\ inning = 1 /\ outs = 3 /\ bases = <<1, 1, 1>>
    /\ home_team = "T2" /\ current_batter_index["T1"] = 6
    /\ away_score = 0 /\ home_score = 0

\* C24: on every WALK, SINGLE, DOUBLE, TRIPLE and HR, from every base state,
\* the runs scored on the play plus the runners on base after it equal the
\* runners on base before it plus 1: every runner and the batter is either on
\* a base or has scored, none lost to another runner landing on his base.
ExactConservationC24 ==
    last_play.result \in {"WALK", "SINGLE", "DOUBLE", "TRIPLE", "HR"} =>
        (home_score - last_play.home_score) + (away_score - last_play.away_score)
            + bases[1] + bases[2] + bases[3]
          = last_play.bases[1] + last_play.bases[2] + last_play.bases[3] + 1

\* A single with runners on first and second: nobody scores, bases loaded.
SingleLoadsBasesC24 ==
    /\ last_play.result = "SINGLE" /\ last_play.bases = <<1, 1, 0>>
    /\ bases = <<1, 1, 1>>
    /\ home_score = last_play.home_score /\ away_score = last_play.away_score

\* C25: a plate appearance leaves the batter index of the side in the field
\* unchanged, for every matchup, one team code entered for both sides
\* included.
SidesIndependentC25 ==
    [][PAStep =>
        LET fielding == IF is_home THEN away_team ELSE home_team
        IN  current_batter_index'[fielding] = current_batter_index[fielding]]_vars

====
